---- MODULE Spec2Model ----
(***************************************************************************)
(* Model of migrate-views.js: the migration of the cards and decks of one  *)
(* Predix Views service instance (origin) to another one (destination).    *)
(*                                                                         *)
(* The state is the position of the migrateGenerator coroutine (pc), its   *)
(* local variables, the config object, the list of every HTTP request      *)
(* issued so far with its settlement, and the content of the destination   *)
(* service.  Each action is the arrival of one HTTP response followed by   *)
(* everything the callbacks do with it, or one resumption of the           *)
(* coroutine after the promise it yielded has settled.                     *)
(***************************************************************************)
EXTENDS Integers, Sequences, FiniteSets, TLC

VARIABLES
    pc,                 \* the yield at which migrateGenerator is suspended
    config,             \* the config object (localConfig, filled by getConfig)
    requests,           \* every request issued so far, in order of issue
    promises,           \* the `promises` array of the bulk operation under way
    clearCards,         \* `cards` of the clearDestination block (line 163)
    clearDecks,         \* `decks` of the clearDestination block (line 164)
    cards,              \* `cards`: the origin cards (line 172)
    destinationCards,   \* `destinationCards` (line 178)
    decks,              \* `decks`: the origin decks (line 188)
    destination         \* the destination service: its cards and decks, and
                        \* whether it keeps the ids of the items posted to it

vars == <<pc, config, requests, promises, clearCards, clearDecks, cards,
          destinationCards, decks, destination>>

----------------------------------------------------------------------------
(* Bounds of the model. *)

MaxCards == 2
MaxDecks == 1
MaxDestCards == 2
MaxDestDecks == 1

----------------------------------------------------------------------------
(* JavaScript values.  A value that may be undefined is a record with a    *)
(* `present` flag; `a && a.length > 0` is NonEmpty(a).                      *)

Undefined == [present |-> FALSE, val |-> <<>>]

Defined(v) == [present |-> TRUE, val |-> v]

NonEmpty(a) == a.present /\ Len(a.val) > 0

Map(s, F(_)) == [i \in 1..Len(s) |-> F(s[i])]

----------------------------------------------------------------------------
(* views-config.json: the two instances, their zones and UAA instances.    *)

localConfig(clear) ==
    [originalViewsUrl |-> "https://origin-views",
     destinationViewsUrl |-> "https://destination-views",
     originalViewsZoneId |-> "origin-zone",
     destinationViewsZoneId |-> "destination-zone",
     originalUaaUrl |-> "https://origin-uaa",
     destinationUaaUrl |-> "https://destination-uaa",
     originalUaaCredentials |-> "origin-credentials",
     destinationUaaCredentials |-> "destination-credentials",
     clearDestination |-> clear]

(* Line 161 with the test inverted.                                        *)
shouldClearInverted(c) == ~c.clearDestination

(* Line 161: whether the destination is cleared first.                     *)
shouldClear(c) == c.clearDestination

(* getConfig: the four resource URLs and the two empty tokens.  A URL is   *)
(* the sequence of its segments.                                           *)
getConfig(c) ==
    [originalViewsUrl |-> c.originalViewsUrl,
     destinationViewsUrl |-> c.destinationViewsUrl,
     originalViewsZoneId |-> c.originalViewsZoneId,
     destinationViewsZoneId |-> c.destinationViewsZoneId,
     originalUaaUrl |-> c.originalUaaUrl,
     destinationUaaUrl |-> c.destinationUaaUrl,
     originalUaaCredentials |-> c.originalUaaCredentials,
     destinationUaaCredentials |-> c.destinationUaaCredentials,
     clearDestination |-> c.clearDestination,
     originalCardsUrl |-> <<c.originalViewsUrl, "api", "cards">>,
     originalDecksUrl |-> <<c.originalViewsUrl, "api", "decks">>,
     destinationCardsUrl |-> <<c.destinationViewsUrl, "api", "cards">>,
     destinationDecksUrl |-> <<c.destinationViewsUrl, "api", "decks">>,
     originalToken |-> "",
     destinationToken |-> ""]

----------------------------------------------------------------------------
(* The data the two services hold and return.                              *)

Tag(v) == [value |-> v]

(* The tag lists a card of the origin comes with: an empty one or one with *)
(* a tag.  The item without a tags field is among the decks (DeckShapes).  *)
TagLists == {Defined(<<>>), Defined(<<Tag("x")>>)}

CardRef(i) == [id |-> "card-" \o ToString(i)]

(* The i-th card of the origin: the id is assigned by the origin service.  *)
OriginCard(i, tags) == [id |-> "card-" \o ToString(i), tags |-> tags]

OriginCardLists ==
    UNION {{[i \in 1..n |-> OriginCard(i, t[i])] : t \in [1..n -> TagLists]}
           : n \in 0..MaxCards}

(* The shapes of a deck: where the service puts the included cards.  A     *)
(* deck carries its cards under attributes.cards (read at line 204) or     *)
(* under cards (read at line 213), under both or under neither.            *)
DeckShapes ==
    {[tags |-> Defined(<<Tag("y")>>),
      attributes |-> Defined([cards |-> Defined(<<CardRef(1)>>)]),
      cards |-> Undefined],
     [tags |-> Defined(<<>>),
      attributes |-> Undefined,
      cards |-> Defined(<<CardRef(1)>>)],
     [tags |-> Undefined,
      attributes |-> Defined([cards |-> Defined(<<CardRef(1)>>)]),
      cards |-> Defined(<<CardRef(1)>>)],
     [tags |-> Defined(<<Tag("y")>>),
      attributes |-> Defined([cards |-> Defined(<<>>)]),
      cards |-> Defined(<<>>)]}

OriginDeck(i, shape) ==
    [id |-> "deck-" \o ToString(i), tags |-> shape.tags,
     attributes |-> shape.attributes, cards |-> shape.cards]

OriginDeckLists ==
    UNION {{[i \in 1..n |-> OriginDeck(i, s[i])] : s \in [1..n -> DeckShapes]}
           : n \in 0..MaxDecks}

(* What the destination holds before the run.                              *)
OldCard(i) == [id |-> "old-card-" \o ToString(i), tags |-> Undefined]

OldDeck(i) ==
    [id |-> "old-deck-" \o ToString(i), tags |-> Undefined,
     attributes |-> Undefined, cards |-> Undefined]

(* A bulk POST creates the items: a destination service that does not     *)
(* keep the ids submitted assigns its own.                                 *)
Created(items, keepIds) ==
    IF keepIds THEN items
    ELSE Map(items, LAMBDA item : [item EXCEPT !.id = "new-" \o item.id])

Ids(items) == {items[i].id : i \in 1..Len(items)}

----------------------------------------------------------------------------
(* HTTP: the requests and the responses.                                   *)

(* What the `request` callback receives: a transport error without a       *)
(* response, or a response with its status code.                           *)
Responses ==
    {[error |-> TRUE, hasResponse |-> FALSE, statusCode |-> 0]}
    \cup {[error |-> FALSE, hasResponse |-> TRUE, statusCode |-> s]
          : s \in {200, 204, 404, 500}}

RECURSIVE FirstDigit(_)
FirstDigit(n) == IF n < 10 THEN n ELSE FirstDigit(n \div 10)

(* requestToken accepting every status code whose first digit is 2, as    *)
(* requestViewsData does.                                                  *)
TokenResolvesOn2xx(r) ==
    ~r.error /\ r.hasResponse /\ FirstDigit(r.statusCode) = 2

(* requestToken, line 31: resolve on status 200 only.                      *)
TokenResolves(r) == ~r.error /\ r.hasResponse /\ r.statusCode = 200

(* requestViewsData, line 63: reject on an error or a status code whose    *)
(* first digit is not 2.                                                   *)
ViewsRejects(r) == r.error \/ (r.hasResponse /\ FirstDigit(r.statusCode) # 2)

(* A request that has not been answered.                                   *)
NoResponse == [error |-> FALSE, hasResponse |-> FALSE, statusCode |-> 0]

(* The request requestToken sends; what its callback receives (line 30)    *)
(* is kept with it.                                                        *)
TokenRequest(uaaUrl, credentials) ==
    [fn |-> "requestToken",
     url |-> <<uaaUrl, "oauth", "token">>,
     zoneId |-> "",
     authorization |-> "Basic " \o credentials,
     method |-> "POST",
     body |-> Defined("grant_type=client_credentials&response_type=token"),
     awaited |-> TRUE,
     status |-> "inflight",
     response |-> NoResponse]

(* The request requestViewsData sends; method "" is an omitted method.     *)
ViewsRequest(url, zoneId, token, method, body, awaited) ==
    [fn |-> "requestViewsData",
     url |-> url,
     zoneId |-> zoneId,
     authorization |-> token,
     method |-> IF method # "" THEN method ELSE "GET",
     body |-> body,
     awaited |-> awaited,
     status |-> "inflight"]

(* The access token a UAA instance issues.                                 *)
AccessToken(uaaUrl) == "token-of-" \o uaaUrl

(* A request is answered with a failure and every request still in flight *)
(* is aborted with it.                                                     *)
SettleAbortingOthers(reqs, i, outcome) ==
    [j \in 1..Len(reqs) |->
        IF j = i THEN [reqs[j] EXCEPT !.status = outcome]
        ELSE IF outcome = "fail" /\ reqs[j].status = "inflight"
             THEN [reqs[j] EXCEPT !.status = "fail"]
             ELSE reqs[j]]

(* Lines 62-73: the callback of a request settles the promise of that      *)
(* request, and of no other.                                               *)
Settle(reqs, i, outcome) == [reqs EXCEPT ![i].status = outcome]

(* Lines 30-35: the callback of requestToken resolves or rejects the       *)
(* promise of the token request on the response r.                         *)
SettleToken(reqs, i, r) ==
    [reqs EXCEPT ![i].status = IF TokenResolves(r) THEN "ok" ELSE "fail",
                 ![i].response = r]

(* The indices the requests `new` get when appended to `reqs`.             *)
NewIndices(reqs, new) == [i \in 1..Len(new) |-> Len(reqs) + i]

StartsWith(url, prefix) ==
    Len(url) >= Len(prefix) /\ SubSeq(url, 1, Len(prefix)) = prefix

----------------------------------------------------------------------------
(* The destination service: what a request it answers with success does to *)
(* the cards and decks it holds.                                           *)

Remove(items, url, base) ==
    SelectSeq(items, LAMBDA item : Append(base, item.id) # url)

Serve(store, req, c) ==
    IF req.method = "DELETE" /\ StartsWith(req.url, c.destinationCardsUrl)
    THEN [store EXCEPT !.cards = Remove(@, req.url, c.destinationCardsUrl)]
    ELSE IF req.method = "DELETE" /\ StartsWith(req.url, c.destinationDecksUrl)
    THEN [store EXCEPT !.decks = Remove(@, req.url, c.destinationDecksUrl)]
    ELSE IF req.method = "POST" /\ req.url = c.destinationCardsUrl
    THEN [store EXCEPT !.cards = @ \o Created(req.body.val, store.keepsIds)]
    ELSE IF req.method = "POST" /\ req.url = c.destinationDecksUrl
    THEN [store EXCEPT !.decks = @ \o Created(req.body.val, store.keepsIds)]
    ELSE store

----------------------------------------------------------------------------
(* The bulk operations.                                                    *)

(* deleteData with a loop that stops one item short.                       *)
deleteDataButLast(items, url, zoneId, token) ==
    Map(SubSeq(items, 1, Len(items) - 1), LAMBDA item :
        ViewsRequest(Append(url, item.id), zoneId, token, "DELETE",
                     Undefined, TRUE))

(* deleteData, lines 93-98: one DELETE per item.                           *)
deleteData(items, url, zoneId, token) ==
    Map(items, LAMBDA item :
        ViewsRequest(Append(url, item.id), zoneId, token, "DELETE",
                     Undefined, TRUE))

(* addTags without the test of the length of the tag list.                 *)
addTagsAnyLength(url, list, zoneId, token) ==
    Map(SelectSeq(list, LAMBDA item : item.tags.present), LAMBDA item :
        ViewsRequest(url \o <<item.id, "tags">>, zoneId, token, "POST",
                     Defined(Map(item.tags.val, LAMBDA tag : Tag(tag.value))),
                     TRUE))

(* addTags, lines 116-126: one POST per item with a non-empty tag list.    *)
addTags(url, list, zoneId, token) ==
    Map(SelectSeq(list, LAMBDA item : NonEmpty(item.tags)), LAMBDA item :
        ViewsRequest(url \o <<item.id, "tags">>, zoneId, token, "POST",
                     Defined(Map(item.tags.val, LAMBDA tag : Tag(tag.value))),
                     TRUE))

(* Lines 203-209: the associations posted to the origin, not awaited.      *)
HasAttributeCards(deck) ==
    deck.attributes.present /\ NonEmpty(deck.attributes.val.cards)

(* The associations of the origin, sent with the token of the destination. *)
associateOriginWrongToken(list, c) ==
    Map(SelectSeq(list, HasAttributeCards), LAMBDA deck :
        ViewsRequest(c.originalDecksUrl \o <<deck.id, "cards", "add">>,
                     c.originalViewsZoneId, c.destinationToken, "POST",
                     Defined(Map(deck.attributes.val.cards.val,
                                 LAMBDA card : card.id)),
                     FALSE))

associateOrigin(list, c) ==
    Map(SelectSeq(list, HasAttributeCards), LAMBDA deck :
        ViewsRequest(c.originalDecksUrl \o <<deck.id, "cards", "add">>,
                     c.originalViewsZoneId, c.originalToken, "POST",
                     Defined(Map(deck.attributes.val.cards.val,
                                 LAMBDA card : card.id)),
                     FALSE))

(* Lines 212-221: the associations posted to the destination.              *)
HasCards(deck) == NonEmpty(deck.cards)

associateDestination(list, c) ==
    Map(SelectSeq(list, HasCards), LAMBDA deck :
        ViewsRequest(c.destinationDecksUrl \o <<deck.id, "cards", "add">>,
                     c.destinationViewsZoneId, c.destinationToken, "POST",
                     Defined(Map(deck.cards.val, LAMBDA card : card.id)),
                     TRUE))

(* The promises of the associations with those of the origin pushed too.   *)
associationPromisesAll(reqs, origin, dest) == NewIndices(reqs, origin \o dest)

(* Lines 211-218: the promises pushed are those of the requests to the     *)
(* destination; the promises of the requests to the origin are dropped.    *)
associationPromises(reqs, origin, dest) == NewIndices(reqs \o origin, dest)

(* Promise.all(promises): rejected once a promise is, fulfilled when all   *)
(* are.                                                                    *)
PromiseAll(reqs, ps) ==
    IF \E k \in 1..Len(ps) : reqs[ps[k]].status = "fail" THEN "rejected"
    ELSE IF \A k \in 1..Len(ps) : reqs[ps[k]].status = "ok" THEN "fulfilled"
    ELSE "pending"

(* A bulk operation that calls resolve() without waiting for its          *)
(* requests.                                                               *)
BulkPromiseEager(reqs, ps) == "fulfilled"

(* A bulk operation that waits for the first of its requests only.        *)
BulkPromiseFirst(reqs, ps) ==
    IF \E k \in 1..Len(ps) : reqs[ps[k]].status = "ok" THEN "fulfilled"
    ELSE "pending"

(* A bulk operation that resumes the run once all its requests have been   *)
(* answered, failed or not.                                                *)
BulkPromiseAllSettled(reqs, ps) ==
    IF \A k \in 1..Len(ps) : reqs[ps[k]].status \in {"ok", "fail"}
    THEN "fulfilled" ELSE "pending"

(* A bulk operation that resumes the run when the request it launched     *)
(* last is fulfilled.                                                      *)
BulkPromiseLast(reqs, ps) ==
    IF ps = <<>> \/ reqs[ps[Len(ps)]].status = "ok" THEN "fulfilled"
    ELSE "pending"

(* The promise a bulk operation returns (lines 99, 127 and 222):           *)
(* Promise.all(promises).then(() => resolve()) calls resolve when all are  *)
(* fulfilled, and nothing calls reject.                                    *)
BulkPromise(reqs, ps) ==
    IF PromiseAll(reqs, ps) = "fulfilled" THEN "fulfilled" ELSE "pending"

----------------------------------------------------------------------------
(* The state before migrateGenerator is called (line 227).                 *)

Init ==
    /\ pc = "Start"
    /\ config \in {localConfig(clear) : clear \in BOOLEAN}
    /\ requests = <<>>
    /\ promises = <<>>
    /\ clearCards = <<>>
    /\ clearDecks = <<>>
    /\ cards = <<>>
    /\ destinationCards = <<>>
    /\ decks = <<>>
    /\ destination \in
         {[cards |-> [i \in 1..n |-> OldCard(i)],
           decks |-> [i \in 1..m |-> OldDeck(i)],
           keepsIds |-> keeps]
          : n \in 0..MaxDestCards, m \in 0..MaxDestDecks, keeps \in BOOLEAN}

(* The request the coroutine awaits at a yield of a single request: the    *)
(* last one issued.                                                        *)
Awaited == Len(requests)

InFlight(i) == i \in 1..Len(requests) /\ requests[i].status = "inflight"

locals == <<clearCards, clearDecks, cards, destinationCards, decks>>

(* Lines 148-152: getConfig, then the token of the origin is requested.    *)
Start ==
    /\ pc = "Start"
    /\ config' = getConfig(config)
    /\ requests' = <<TokenRequest(config.originalUaaUrl,
                                  config.originalUaaCredentials)>>
    /\ pc' = "AuthOrigin"
    /\ UNCHANGED <<promises, locals, destination>>

(* Lines 152-157: the origin token arrives, the destination's is requested. *)
OriginTokenOk ==
    /\ pc = "AuthOrigin"
    /\ InFlight(Awaited)
    /\ \E r \in Responses :
          /\ TokenResolves(r)
          /\ requests' = Append(SettleToken(requests, Awaited, r),
                                TokenRequest(config.destinationUaaUrl,
                                             config.destinationUaaCredentials))
    /\ config' = [config EXCEPT !.originalToken =
                    "Bearer " \o AccessToken(config.originalUaaUrl)]
    /\ pc' = "AuthDestination"
    /\ UNCHANGED <<promises, locals, destination>>

(* The destination's token stored in the field of the origin's.            *)
withDestinationTokenAsOrigin(c) ==
    [c EXCEPT !.originalToken = "Bearer " \o AccessToken(c.destinationUaaUrl)]

(* Line 157: config.destinationToken = `Bearer ${...access_token}`.         *)
withDestinationToken(c) ==
    [c EXCEPT !.destinationToken =
                  "Bearer " \o AccessToken(c.destinationUaaUrl)]

(* Lines 157-172: the destination token arrives; the destination's cards   *)
(* are requested when it is to be cleared, the origin's cards when not.    *)
DestinationTokenOk ==
    /\ pc = "AuthDestination"
    /\ InFlight(Awaited)
    /\ config' = withDestinationToken(config)
    /\ \E r \in Responses :
          /\ TokenResolves(r)
          /\ IF shouldClear(config)
             THEN /\ requests' = Append(SettleToken(requests, Awaited, r),
                          ViewsRequest(config.destinationCardsUrl,
                                       config.destinationViewsZoneId,
                                       config'.destinationToken, "",
                                       Undefined, TRUE))
                  /\ pc' = "ClearFetchCards"
             ELSE /\ requests' = Append(SettleToken(requests, Awaited, r),
                          ViewsRequest(config.originalCardsUrl,
                                       config.originalViewsZoneId,
                                       config'.originalToken, "", Undefined,
                                       TRUE))
                  /\ pc' = "GetCards"
    /\ UNCHANGED <<promises, locals, destination>>

(* Lines 34 and 229: a token request fails and the run ends in the catch.  *)
TokenFail ==
    /\ pc \in {"AuthOrigin", "AuthDestination"}
    /\ InFlight(Awaited)
    /\ \E r \in Responses :
          /\ ~TokenResolves(r)
          /\ requests' = SettleToken(requests, Awaited, r)
    /\ pc' = "Failed"
    /\ UNCHANGED <<config, promises, locals, destination>>

(* Lines 163-164: the destination's cards arrive, its decks are requested. *)
ClearFetchCardsOk ==
    /\ pc = "ClearFetchCards"
    /\ InFlight(Awaited)
    /\ \E r \in Responses : ~ViewsRejects(r)
    /\ clearCards' = destination.cards
    /\ requests' = Append(Settle(requests, Awaited, "ok"),
            ViewsRequest(config.destinationDecksUrl,
                         config.destinationViewsZoneId,
                         config.destinationToken, "", Undefined, TRUE))
    /\ pc' = "ClearFetchDecks"
    /\ UNCHANGED <<config, promises, clearDecks, cards, destinationCards,
                   decks, destination>>

(* deleteData called with the URL, the zone and the token of the origin.    *)
ClearFetchDecksOkAtOrigin ==
    /\ pc = "ClearFetchDecks"
    /\ InFlight(Awaited)
    /\ \E r \in Responses : ~ViewsRejects(r)
    /\ clearDecks' = destination.decks
    /\ LET new == deleteData(clearCards, config.originalCardsUrl,
                             config.originalViewsZoneId,
                             config.originalToken)
           old == Settle(requests, Awaited, "ok")
       IN /\ requests' = old \o new
          /\ promises' = NewIndices(old, new)
    /\ pc' = "ClearDeleteCards"
    /\ UNCHANGED <<config, clearCards, cards, destinationCards, decks,
                   destination>>

(* deleteData of the cards and deleteData of the decks started together.   *)
ClearFetchDecksOkBoth ==
    /\ pc = "ClearFetchDecks"
    /\ InFlight(Awaited)
    /\ \E r \in Responses : ~ViewsRejects(r)
    /\ clearDecks' = destination.decks
    /\ LET new == deleteData(clearCards, config.destinationCardsUrl,
                             config.destinationViewsZoneId,
                             config.destinationToken)
                   \o deleteData(clearDecks', config.destinationDecksUrl,
                                 config.destinationViewsZoneId,
                                 config.destinationToken)
           old == Settle(requests, Awaited, "ok")
       IN /\ requests' = old \o new
          /\ promises' = NewIndices(old, new)
    /\ pc' = "ClearDeleteDecks"
    /\ UNCHANGED <<config, clearCards, cards, destinationCards, decks,
                   destination>>

(* Lines 164-165: the destination's decks arrive, deleteData of its cards. *)
ClearFetchDecksOk ==
    /\ pc = "ClearFetchDecks"
    /\ InFlight(Awaited)
    /\ \E r \in Responses : ~ViewsRejects(r)
    /\ clearDecks' = destination.decks
    /\ LET new == deleteData(clearCards, config.destinationCardsUrl,
                             config.destinationViewsZoneId,
                             config.destinationToken)
           old == Settle(requests, Awaited, "ok")
       IN /\ requests' = old \o new
          /\ promises' = NewIndices(old, new)
    /\ pc' = "ClearDeleteCards"
    /\ UNCHANGED <<config, clearCards, cards, destinationCards, decks,
                   destination>>

(* Lines 165-166: deleteData of the cards has settled, deleteData of the   *)
(* decks.  A rejected promise is thrown into the coroutine (line 229).     *)
DeleteCardsSettled ==
    /\ pc = "ClearDeleteCards"
    /\ BulkPromise(requests, promises) # "pending"
    /\ IF BulkPromise(requests, promises) = "rejected"
       THEN /\ pc' = "Failed"
            /\ UNCHANGED <<requests, promises>>
       ELSE /\ LET new == deleteData(clearDecks, config.destinationDecksUrl,
                                     config.destinationViewsZoneId,
                                     config.destinationToken)
               IN /\ requests' = requests \o new
                  /\ promises' = NewIndices(requests, new)
            /\ pc' = "ClearDeleteDecks"
    /\ UNCHANGED <<config, locals, destination>>

(* Lines 166-172: deleteData of the decks has settled, the origin's cards  *)
(* are requested.                                                          *)
DeleteDecksSettled ==
    /\ pc = "ClearDeleteDecks"
    /\ BulkPromise(requests, promises) # "pending"
    /\ IF BulkPromise(requests, promises) = "rejected"
       THEN /\ pc' = "Failed"
            /\ UNCHANGED requests
       ELSE /\ requests' = Append(requests,
                    ViewsRequest(config.originalCardsUrl,
                                 config.originalViewsZoneId,
                                 config.originalToken, "", Undefined, TRUE))
            /\ pc' = "GetCards"
    /\ UNCHANGED <<config, promises, locals, destination>>

(* Lines 172-177: the origin's cards arrive and are posted to the          *)
(* destination in one request.                                             *)
GetCardsOk ==
    /\ pc = "GetCards"
    /\ InFlight(Awaited)
    /\ \E r \in Responses : ~ViewsRejects(r)
    /\ \E body \in OriginCardLists :
        /\ cards' = body
        /\ requests' = Append(Settle(requests, Awaited, "ok"),
                ViewsRequest(<<config.destinationViewsUrl, "api", "cards">>,
                             config.destinationViewsZoneId,
                             config.destinationToken, "POST", Defined(body),
                             TRUE))
        /\ pc' = "PostCards"
    /\ UNCHANGED <<config, promises, clearCards, clearDecks, destinationCards,
                   decks, destination>>

(* Lines 177-178: the cards are created, the destination's cards are       *)
(* requested.                                                              *)
PostCardsOk ==
    /\ pc = "PostCards"
    /\ InFlight(Awaited)
    /\ \E r \in Responses : ~ViewsRejects(r)
    /\ destination' = Serve(destination, requests[Awaited], config)
    /\ requests' = Append(Settle(requests, Awaited, "ok"),
            ViewsRequest(<<config.destinationViewsUrl, "api", "cards">>,
                         config.destinationViewsZoneId,
                         config.destinationToken, "", Undefined, TRUE))
    /\ pc' = "RefetchCards"
    /\ UNCHANGED <<config, promises, locals>>

(* Lines 178-183: the destination's cards arrive, addTags of the cards.    *)
RefetchCardsOk ==
    /\ pc = "RefetchCards"
    /\ InFlight(Awaited)
    /\ \E r \in Responses : ~ViewsRejects(r)
    /\ destinationCards' = destination.cards
    /\ LET new == addTags(config.destinationCardsUrl, cards,
                          config.destinationViewsZoneId,
                          config.destinationToken)
           old == Settle(requests, Awaited, "ok")
       IN /\ requests' = old \o new
          /\ promises' = NewIndices(old, new)
    /\ pc' = "TagCards"
    /\ UNCHANGED <<config, clearCards, clearDecks, cards, decks, destination>>

(* Lines 183-188: addTags of the cards has settled, the origin's decks are *)
(* requested with their cards included.                                    *)
TagCardsSettled ==
    /\ pc = "TagCards"
    /\ BulkPromise(requests, promises) # "pending"
    /\ IF BulkPromise(requests, promises) = "rejected"
       THEN /\ pc' = "Failed"
            /\ UNCHANGED requests
       ELSE /\ requests' = Append(requests,
                    ViewsRequest(Append(config.originalDecksUrl,
                                        "?filter[include][cards]"),
                                 config.originalViewsZoneId,
                                 config.originalToken, "", Undefined, TRUE))
            /\ pc' = "GetDecks"
    /\ UNCHANGED <<config, promises, locals, destination>>

(* Lines 188-193: the origin's decks arrive and are posted to the          *)
(* destination in one request.                                             *)
GetDecksOk ==
    /\ pc = "GetDecks"
    /\ InFlight(Awaited)
    /\ \E r \in Responses : ~ViewsRejects(r)
    /\ \E body \in OriginDeckLists :
        /\ decks' = body
        /\ requests' = Append(Settle(requests, Awaited, "ok"),
                ViewsRequest(config.destinationDecksUrl,
                             config.destinationViewsZoneId,
                             config.destinationToken, "POST", Defined(body),
                             TRUE))
        /\ pc' = "PostDecks"
    /\ UNCHANGED <<config, promises, clearCards, clearDecks, cards,
                   destinationCards, destination>>

(* Lines 193-198: the decks are created, addTags of the decks.             *)
PostDecksOk ==
    /\ pc = "PostDecks"
    /\ InFlight(Awaited)
    /\ \E r \in Responses : ~ViewsRejects(r)
    /\ destination' = Serve(destination, requests[Awaited], config)
    /\ LET new == addTags(config.destinationDecksUrl, decks,
                          config.destinationViewsZoneId,
                          config.destinationToken)
           old == Settle(requests, Awaited, "ok")
       IN /\ requests' = old \o new
          /\ promises' = NewIndices(old, new)
    /\ pc' = "TagDecks"
    /\ UNCHANGED <<config, locals>>

(* Lines 198-223: addTags of the decks has settled; the associations are   *)
(* posted to the origin, then to the destination, whose requests are the   *)
(* promises awaited.                                                       *)
TagDecksSettled ==
    /\ pc = "TagDecks"
    /\ BulkPromise(requests, promises) # "pending"
    /\ IF BulkPromise(requests, promises) = "rejected"
       THEN /\ pc' = "Failed"
            /\ UNCHANGED <<requests, promises>>
       ELSE /\ LET origin == associateOrigin(decks, config)
                   dest == associateDestination(decks, config)
               IN /\ requests' = requests \o origin \o dest
                  /\ promises' = associationPromises(requests, origin, dest)
            /\ pc' = "AssociateCards"
    /\ UNCHANGED <<config, locals, destination>>

(* Lines 223-228: the associations at the destination have settled and     *)
(* the run is finished.                                                    *)
AssociateSettled ==
    /\ pc = "AssociateCards"
    /\ BulkPromise(requests, promises) # "pending"
    /\ pc' = IF BulkPromise(requests, promises) = "rejected"
             THEN "Failed" ELSE "Done"
    /\ UNCHANGED <<config, requests, promises, locals, destination>>

(* A failed request is sent a second time before the run gives up.         *)
ViewsFailRetry ==
    /\ pc \in {"ClearFetchCards", "ClearFetchDecks", "GetCards", "PostCards",
               "RefetchCards", "GetDecks", "PostDecks"}
    /\ InFlight(Awaited)
    /\ \E r \in Responses : ViewsRejects(r)
    /\ IF Awaited > 1 /\ requests[Awaited - 1].status = "fail"
       THEN /\ requests' = Settle(requests, Awaited, "fail")
            /\ pc' = "Failed"
       ELSE /\ requests' = Append(Settle(requests, Awaited, "fail"),
                                  requests[Awaited])
            /\ pc' = pc
    /\ UNCHANGED <<config, promises, locals, destination>>

(* Lines 64 and 229: a request the coroutine awaits fails and the run ends *)
(* in the catch.                                                           *)
ViewsFail ==
    /\ pc \in {"ClearFetchCards", "ClearFetchDecks", "GetCards", "PostCards",
               "RefetchCards", "GetDecks", "PostDecks"}
    /\ InFlight(Awaited)
    /\ \E r \in Responses : ViewsRejects(r)
    /\ requests' = Settle(requests, Awaited, "fail")
    /\ pc' = "Failed"
    /\ UNCHANGED <<config, promises, locals, destination>>

(* Lines 67, 97, 124 and 219: a request of a bulk operation succeeds.      *)
ItemOkAt(k) ==
    /\ InFlight(promises[k])
    /\ \E r \in Responses : ~ViewsRejects(r)
    /\ requests' = Settle(requests, promises[k], "ok")
    /\ destination' = Serve(destination, requests[promises[k]], config)
    /\ UNCHANGED <<pc, config, promises, locals>>

ItemOk == \E k \in 1..Len(promises) : ItemOkAt(k)

(* Line 64: a request of a bulk operation fails.                           *)
ItemFail ==
    \E k \in 1..Len(promises) :
        /\ InFlight(promises[k])
        /\ \E r \in Responses : ViewsRejects(r)
        /\ requests' = Settle(requests, promises[k], "fail")
        /\ UNCHANGED <<pc, config, promises, locals, destination>>

(* Lines 205-207: a request nothing awaits is answered.                    *)
Unawaited ==
    \E i \in 1..Len(requests), outcome \in {"ok", "fail"} :
        /\ InFlight(i)
        /\ ~requests[i].awaited
        /\ \E r \in Responses : ViewsRejects(r) <=> outcome = "fail"
        /\ requests' = Settle(requests, i, outcome)
        /\ UNCHANGED <<pc, config, promises, locals, destination>>

Next ==
    \/ Start
    \/ OriginTokenOk
    \/ DestinationTokenOk
    \/ TokenFail
    \/ ClearFetchCardsOk
    \/ ClearFetchDecksOk
    \/ DeleteCardsSettled
    \/ DeleteDecksSettled
    \/ GetCardsOk
    \/ PostCardsOk
    \/ RefetchCardsOk
    \/ TagCardsSettled
    \/ GetDecksOk
    \/ PostDecksOk
    \/ TagDecksSettled
    \/ AssociateSettled
    \/ ViewsFail
    \/ ItemOk
    \/ ItemFail
    \/ Unawaited

Spec == Init /\ [][Next]_vars

----------------------------------------------------------------------------
(* Vocabulary of the properties.                                           *)

(* The stage of section 4.5 the coroutine is in.                           *)
Stage ==
    CASE pc = "Start" -> "NotStarted"
      [] pc = "AuthOrigin" -> "AuthOrigin"
      [] pc = "AuthDestination" -> "AuthDestination"
      [] pc \in {"ClearFetchCards", "ClearFetchDecks", "ClearDeleteCards",
                 "ClearDeleteDecks"} -> "ClearDestination"
      [] pc \in {"GetCards", "PostCards", "RefetchCards", "TagCards"}
           -> "MigrateCards"
      [] pc \in {"GetDecks", "PostDecks", "TagDecks"} -> "MigrateDecks"
      [] pc = "AssociateCards" -> "AssociateCards"
      [] pc = "Done" -> "Done"
      [] pc = "Failed" -> "Failed"

(* The yields at which the coroutine awaits a bulk operation.              *)
BulkPcs ==
    {"ClearDeleteCards", "ClearDeleteDecks", "TagCards", "TagDecks",
     "AssociateCards"}

Requests == 1..Len(requests)

IsDelete(i, base) ==
    /\ requests[i].method = "DELETE"
    /\ Len(requests[i].url) = Len(base) + 1
    /\ StartsWith(requests[i].url, base)

IsCreate(i, base) == requests[i].method = "POST" /\ requests[i].url = base

IsTagPost(i, base) ==
    /\ requests[i].method = "POST"
    /\ Len(requests[i].url) = Len(base) + 2
    /\ StartsWith(requests[i].url, base)
    /\ requests[i].url[Len(base) + 2] = "tags"

IsAssociation(i, base) ==
    /\ requests[i].method = "POST"
    /\ Len(requests[i].url) = Len(base) + 3
    /\ StartsWith(requests[i].url, base)
    /\ SubSeq(requests[i].url, Len(base) + 2, Len(base) + 3) = <<"cards", "add">>

(* The id in the URL of a request on one item.                             *)
ItemId(i, base) == requests[i].url[Len(base) + 1]

CardDeletes == {i \in Requests : IsDelete(i, config.destinationCardsUrl)}

DeckDeletes == {i \in Requests : IsDelete(i, config.destinationDecksUrl)}

Creates ==
    {i \in Requests : \/ IsCreate(i, config.destinationCardsUrl)
                      \/ IsCreate(i, config.destinationDecksUrl)}

DestinationAssociations ==
    {i \in Requests : IsAssociation(i, config.destinationDecksUrl)}

OriginAssociations ==
    {i \in Requests : IsAssociation(i, config.originalDecksUrl)}

----------------------------------------------------------------------------
(* The order of the stages.                                                *)

StageOrder ==
    <<"NotStarted", "AuthOrigin", "AuthDestination", "ClearDestination",
      "MigrateCards", "MigrateDecks", "AssociateCards", "Done">>

Rank(stage) == CHOOSE n \in 1..Len(StageOrder) : StageOrder[n] = stage

(* A step from one stage to the next one to start. *)
NextStage(from, to, clear) ==
    IF from = "AuthDestination"
    THEN to = (IF clear THEN "ClearDestination" ELSE "MigrateCards")
    ELSE IF from = "ClearDestination" THEN to = "MigrateCards"
    ELSE Rank(to) = Rank(from) + 1

IssuedAwaited ==
    {i \in 1..Len(requests') : i > Len(requests) /\ requests'[i].awaited}

AssociationsFollowCreate ==
    \A j \in DestinationAssociations :
        \E i \in 1..(j - 1) : /\ IsCreate(i, config.destinationCardsUrl)
                              /\ requests[i].status = "ok"

C1_Step ==
    /\ Stage' # Stage /\ Stage' # "Failed" =>
          /\ Stage # "Failed" /\ Stage # "Done"
          /\ NextStage(Stage, Stage', config'.clearDestination)
    /\ IssuedAwaited # {} =>
          \A i \in Requests : requests'[i].awaited => requests'[i].status = "ok"
    /\ AssociationsFollowCreate'

(* C1: the stages start in the order AuthOrigin, AuthDestination,          *)
(* ClearDestination (only when configured), MigrateCards, MigrateDecks,    *)
(* AssociateCards, Done; when an awaited request is issued, every awaited  *)
(* request issued in an earlier step, hence every one of the preceding     *)
(* stages, has completed successfully; and an association is posted to the *)
(* destination only after the bulk POST of the cards has succeeded.        *)
C1_StagesInOrder == [][C1_Step]_vars

C1_Witness ==
    /\ pc = "Done"
    /\ config.clearDestination
    /\ DestinationAssociations # {}

----------------------------------------------------------------------------
(* The clearing of the destination.                                        *)

DeletedIds(deletes, base) == {ItemId(i, base) : i \in deletes}

(* C2: with clearDestination set, the run issues one DELETE for each card  *)
(* and each deck the destination held, never more, and once a bulk POST of *)
(* cards or decks has been issued, exactly as many card DELETEs as the     *)
(* destination held cards and deck DELETEs as it held decks have been      *)
(* issued, each of them before the first bulk POST.                        *)
C2_DeletesBeforeCreates ==
    pc # "Start" /\ config.clearDestination =>
        /\ Cardinality(CardDeletes) <= Len(clearCards)
        /\ Cardinality(DeckDeletes) <= Len(clearDecks)
        /\ Creates # {} =>
              /\ Cardinality(CardDeletes) = Len(clearCards)
              /\ Cardinality(DeckDeletes) = Len(clearDecks)
              /\ DeletedIds(CardDeletes, config.destinationCardsUrl)
                    = Ids(clearCards)
              /\ DeletedIds(DeckDeletes, config.destinationDecksUrl)
                    = Ids(clearDecks)
              /\ \A d \in CardDeletes \cup DeckDeletes :
                    \A c \in Creates : d < c

C2_Witness ==
    /\ pc # "Start"
    /\ config.clearDestination
    /\ Creates # {}
    /\ Len(clearCards) >= 2
    /\ Len(clearDecks) >= 1

----------------------------------------------------------------------------
(* The failure of a bulk operation.                                        *)

(* C3: if a request of the bulk operation under way has failed, the        *)
(* promise the bulk operation returned is rejected.                        *)
C3_FailureRejectsAggregate ==
    PromiseAll(requests, promises) = "rejected" =>
        BulkPromise(requests, promises) = "rejected"

----------------------------------------------------------------------------
(* The end of a run.                                                       *)

AwaitedFailure ==
    \E i \in Requests : requests[i].awaited /\ requests[i].status = "fail"

(* C4: a run that can take no further step, every request issued having   *)
(* been answered, is in a terminal state: Failed when an awaited request   *)
(* has failed, Done when none has.                                         *)
C4_RunTerminates ==
    ~ENABLED Next =>
        /\ pc \in {"Done", "Failed"}
        /\ pc = "Failed" <=> AwaitedFailure

----------------------------------------------------------------------------
(* The requests of a bulk operation do not cancel each other.              *)

Changed == {i \in Requests : requests'[i].status # requests[i].status}

DeletedItemsGone ==
    /\ \A i \in CardDeletes : requests[i].status = "ok" =>
          ItemId(i, config.destinationCardsUrl) \notin Ids(destination.cards)
    /\ \A i \in DeckDeletes : requests[i].status = "ok" =>
          ItemId(i, config.destinationDecksUrl) \notin Ids(destination.decks)

(* C5: the failure of a request of a bulk operation cancels no other       *)
(* request: a response settles the one request it answers, every request   *)
(* of the bulk operation still in flight can be answered with success      *)
(* whatever has become of the others, and the item of a DELETE answered    *)
(* with success is gone from the destination.                              *)
C5_SiblingsNotCancelled ==
    /\ [][/\ Cardinality(Changed) <= 1
          /\ \A i \in Changed : requests[i].status = "inflight"]_vars
    /\ [](\A k \in 1..Len(promises) :
            InFlight(promises[k]) => ENABLED ItemOkAt(k))
    /\ [](pc # "Start" => DeletedItemsGone)

C5_Witness ==
    /\ pc = "ClearDeleteCards"
    /\ \E i, j \in CardDeletes :
          /\ requests[i].status = "fail"
          /\ requests[j].status = "ok"
          /\ ItemId(j, config.destinationCardsUrl) \notin Ids(destination.cards)
          /\ ItemId(i, config.destinationCardsUrl) \in Ids(destination.cards)

----------------------------------------------------------------------------
(* The settlement of a bulk operation.                                     *)

(* The list the bulk operation awaited at pc was called with.              *)
BulkItems ==
    CASE pc = "ClearDeleteCards" -> clearCards
      [] pc = "ClearDeleteDecks" -> clearDecks
      [] pc = "TagCards" -> cards
      [] pc = "TagDecks" -> decks

DeleteTagPcs == {"ClearDeleteCards", "ClearDeleteDecks", "TagCards", "TagDecks"}

Settled(i) == requests[i].status \in {"ok", "fail"}

C6_Step ==
    /\ pc \in DeleteTagPcs /\ pc' # pc =>
          \A k \in 1..Len(promises) : Settled(promises[k])
    /\ pc' \in DeleteTagPcs /\ pc' # pc /\ Len(BulkItems') = 0 =>
          /\ promises' = <<>>
          /\ \A i \in 1..Len(requests') : i <= Len(requests)
          /\ BulkPromise(requests', promises') = "fulfilled"

(* C6: the coroutine resumes from deleteData or addTags only when every    *)
(* request the operation launched has settled, and an operation on an      *)
(* empty list issues no request and its promise is fulfilled at once.      *)
C6_ResolvesWhenAllSettled == [][C6_Step]_vars

C6_Witness ==
    /\ pc = "GetDecks"
    /\ Len(promises) >= 2
    /\ config.clearDestination
    /\ clearCards = <<>>
    /\ CardDeletes = {}

----------------------------------------------------------------------------
(* The ids the tags are posted to.                                         *)

CardTagPosts == {i \in Requests : IsTagPost(i, config.destinationCardsUrl)}

(* C7: every tag POST on a card of the destination is addressed to the id  *)
(* of a card of destinationCards, the cards fetched from the destination.  *)
C7_TagsGoToDestinationIds ==
    \A i \in CardTagPosts :
        ItemId(i, config.destinationCardsUrl) \in Ids(destinationCards)

----------------------------------------------------------------------------
(* The associations posted to the destination.                             *)

AssociationsOf(deck) ==
    {i \in DestinationAssociations :
        ItemId(i, config.destinationDecksUrl) = deck.id}

(* C8: once the AssociateCards stage has started, each origin deck whose   *)
(* attributes.cards is non-empty has exactly one POST to                   *)
(* destinationDecksUrl/id/cards/add in the destination zone, with the ids  *)
(* of these cards as its body, and the POST has settled when the run is    *)
(* Done.                                                                   *)
C8_OneAssociationPerDeck ==
    pc \in {"AssociateCards", "Done"} =>
        \A d \in 1..Len(decks) : HasAttributeCards(decks[d]) =>
            /\ Cardinality(AssociationsOf(decks[d])) = 1
            /\ \A i \in AssociationsOf(decks[d]) :
                  /\ requests[i].zoneId = config.destinationViewsZoneId
                  /\ requests[i].body =
                        Defined([n \in 1..Len(decks[d].attributes.val.cards.val)
                                   |-> decks[d].attributes.val.cards.val[n].id])
                  /\ pc = "Done" => Settled(i)

----------------------------------------------------------------------------
(* The requests of addTags.                                                *)

Tagged(list) == {n \in 1..Len(list) : NonEmpty(list[n].tags)}

TagPostsOf(item, base) ==
    {k \in 1..Len(promises) :
        /\ IsTagPost(promises[k], base)
        /\ ItemId(promises[k], base) = item.id}

OnePostPerTagged(list, base) ==
    /\ Len(promises) = Cardinality(Tagged(list))
    /\ \A n \in 1..Len(list) :
          Cardinality(TagPostsOf(list[n], base))
              = (IF n \in Tagged(list) THEN 1 ELSE 0)
    /\ \A i \in Requests :
          IsTagPost(i, base) => \E k \in 1..Len(promises) : promises[k] = i

----------------------------------------------------------------------------
(* The decks an association is posted for.                                 *)

DeckOf(id) == CHOOSE d \in 1..Len(decks) : decks[d].id = id

(* C10: every association POST, at the origin or at the destination, is    *)
(* for a deck whose attributes.cards is non-empty.                         *)
C10_NoAssociationWithoutCards ==
    /\ \A i \in OriginAssociations :
          HasAttributeCards(decks[DeckOf(ItemId(i, config.originalDecksUrl))])
    /\ \A i \in DestinationAssociations :
          HasAttributeCards(decks[DeckOf(ItemId(i, config.destinationDecksUrl))])

----------------------------------------------------------------------------
(* The zone of a request.                                                  *)

ViewsRequests == {i \in Requests : requests[i].fn = "requestViewsData"}

(* The token the UAA instance of a zone issues, as the code sends it.      *)
BearerOf(uaaUrl) == "Bearer " \o AccessToken(uaaUrl)

InOrigin(i) ==
    /\ requests[i].zoneId = config.originalViewsZoneId
    /\ requests[i].authorization = BearerOf(config.originalUaaUrl)
    /\ requests[i].url[1] = config.originalViewsUrl

InDestination(i) ==
    /\ requests[i].zoneId = config.destinationViewsZoneId
    /\ requests[i].authorization = BearerOf(config.destinationUaaUrl)
    /\ requests[i].url[1] = config.destinationViewsUrl

(* C11: every views request carries the zone id, the bearer token issued   *)
(* for that zone and a URL of that zone, all three of the origin or all    *)
(* three of the destination.                                               *)
C11_TokenMatchesZone ==
    [](\A i \in ViewsRequests : InOrigin(i) \/ InDestination(i))

C11_Witness ==
    /\ pc = "Done"
    /\ \E i \in OriginAssociations : InOrigin(i)
    /\ \E i \in DestinationAssociations : InDestination(i)
    /\ \E i \in CardDeletes : InDestination(i)

----------------------------------------------------------------------------
(* The token exchanges.                                                    *)

TokenRequests == {i \in Requests : requests[i].fn = "requestToken"}

Answered200(i) ==
    /\ ~requests[i].response.error
    /\ requests[i].response.hasResponse
    /\ requests[i].response.statusCode = 200

(* C12: a token request is fulfilled only when it was answered with status *)
(* 200 and is rejected on every other answer; a rejected token request is  *)
(* the last request of the run, which is Failed, the UAA instance was      *)
(* asked once, and no views request has been issued.                       *)
C12_TokenOnlyOn200 ==
    [](\A i \in TokenRequests :
           /\ requests[i].status = "ok" => Answered200(i)
           /\ requests[i].status = "fail" =>
                 /\ ~Answered200(i)
                 /\ pc = "Failed"
                 /\ i = Len(requests)
                 /\ ViewsRequests = {}
           /\ \A j \in TokenRequests : requests[j].url = requests[i].url => j = i)

C12_Witness ==
    /\ pc = "Failed"
    /\ \E i, j \in TokenRequests :
          /\ requests[i].status = "ok"
          /\ requests[j].status = "fail"
          /\ requests[j].response.hasResponse
          /\ FirstDigit(requests[j].response.statusCode) = 2

----------------------------------------------------------------------------
(* The associations posted to the origin.                                  *)

Promised(i) == \E k \in 1..Len(promises) : promises[k] = i

(* C13: no promise of an association posted to the origin is awaited; a    *)
(* run is Failed only when a request other than these has failed; and      *)
(* once the associations posted to the destination are all fulfilled the   *)
(* run can finish, whatever has become of those posted to the origin.      *)
C13_OriginAssociationsNotAwaited ==
    [](/\ \A i \in OriginAssociations : ~requests[i].awaited /\ ~Promised(i)
       /\ pc = "Failed" =>
             \E i \in Requests \ OriginAssociations : requests[i].status = "fail"
       /\ (pc = "AssociateCards"
           /\ \A i \in DestinationAssociations : requests[i].status = "ok")
             => ENABLED AssociateSettled)

C13_Witness ==
    /\ pc = "Done"
    /\ \E i \in OriginAssociations : requests[i].status = "inflight"

----------------------------------------------------------------------------
(* After a failure.                                                        *)

CreatedInPlace ==
    /\ \A i \in Requests :
          IsCreate(i, config.destinationCardsUrl) /\ requests[i].status = "ok"
          => Ids(Created(requests[i].body.val, destination.keepsIds))
                \subseteq Ids(destination.cards)
    /\ \A i \in Requests :
          IsCreate(i, config.destinationDecksUrl) /\ requests[i].status = "ok"
          => Ids(Created(requests[i].body.val, destination.keepsIds))
                \subseteq Ids(destination.decks)

(* C14: once an awaited request has failed the run stays where it is, the  *)
(* only requests after the failed one are those launched with it by the    *)
(* same bulk operation, and what the requests answered with success did to *)
(* the destination is still there: the created items are held, the deleted *)
(* items are gone.                                                         *)
C14_NothingAfterFailure ==
    [](\A i \in Requests :
           requests[i].awaited /\ requests[i].status = "fail" =>
               /\ pc \in BulkPcs \cup {"Failed"}
               /\ \A j \in Requests : j > i => Promised(i) /\ Promised(j)
               /\ pc = "Failed" => i = Len(requests)
               /\ CreatedInPlace
               /\ DeletedItemsGone)

C14_Witness ==
    /\ pc = "Failed"
    /\ \E i \in CardDeletes : requests[i].status = "ok"
    /\ \E i \in Requests :
          /\ IsCreate(i, config.destinationCardsUrl)
          /\ requests[i].status = "ok"
          /\ Len(requests[i].body.val) > 0
    /\ \E i \in Requests :
          /\ IsCreate(i, config.destinationDecksUrl)
          /\ requests[i].status = "fail"

----------------------------------------------------------------------------
(* The fan-out of a bulk operation.                                        *)

(* The coroutine resumes from the yield of deleteData or addTags.          *)
Resumes ==
    \/ DeleteCardsSettled
    \/ DeleteDecksSettled
    \/ TagCardsSettled
    \/ TagDecksSettled

(* The number of requests deleteData or addTags launches for BulkItems.    *)
Launched ==
    IF pc \in {"ClearDeleteCards", "ClearDeleteDecks"} THEN Len(BulkItems)
    ELSE Cardinality(Tagged(BulkItems))

(* C15: from the first state in which deleteData or addTags is awaited,    *)
(* all its requests have been launched, one per item concerned; each one   *)
(* still in flight can be answered next, with success or failure, whatever *)
(* the others; and the coroutine can resume exactly when all of them are   *)
(* fulfilled, in whatever order they were answered.                        *)
C15_AllLaunchedAtOnce ==
    [](pc \in DeleteTagPcs =>
           /\ Len(promises) = Launched
           /\ \A k, l \in 1..Len(promises) : promises[k] = promises[l] => k = l
           /\ \A k \in 1..Len(promises) :
                 InFlight(promises[k]) =>
                     /\ ENABLED ItemOkAt(k)
                     /\ ENABLED (/\ requests' = Settle(requests, promises[k], "fail")
                                 /\ ItemFail)
           /\ ENABLED Resumes
                 <=> \A k \in 1..Len(promises) : requests[promises[k]].status = "ok")

C15_Witness ==
    /\ pc = "ClearDeleteCards"
    /\ Len(clearCards) >= 2
    /\ Len(promises) = Len(clearCards)
    /\ \A k \in 1..Len(promises) : InFlight(promises[k])

----------------------------------------------------------------------------
(* Requests sent more than once.                                           *)

SameRequest(i, j) ==
    /\ requests[i].method = requests[j].method
    /\ requests[i].url = requests[j].url
    /\ requests[i].fn = requests[j].fn

(* The fetch of line 163 and the fetch of line 178, with the bulk POST of  *)
(* the cards answered between them.                                        *)
FetchAndRefetch(i, j) ==
    /\ config.clearDestination
    /\ requests[i].method = "GET"
    /\ requests[i].url = config.destinationCardsUrl
    /\ requests[i].status = "ok"
    /\ \E k \in Requests :
          /\ i < k /\ k < j
          /\ IsCreate(k, config.destinationCardsUrl)
          /\ requests[k].status = "ok"

(* C16: at every state of a run, a request that has failed or is in flight *)
(* has not been sent again, and the only request sent twice is the GET of  *)
(* the destination's cards, once before the deletions and once after the   *)
(* bulk POST of the cards has been answered; no request is sent three      *)
(* times.                                                                  *)
C16_NoRetry ==
    [](\A j \in Requests :
           \A i \in 1..(j - 1) :
               SameRequest(i, j) =>
                   /\ FetchAndRefetch(i, j)
                   /\ \A l \in Requests : SameRequest(i, l) => l \in {i, j})

C16_Witness ==
    /\ pc = "Failed"
    /\ config.clearDestination
    /\ requests[Len(requests)].status = "fail"
    /\ requests[Len(requests)].method = "GET"
    /\ requests[Len(requests)].url = config.destinationCardsUrl
    /\ \E i \in Requests : i < Len(requests) /\ SameRequest(i, Len(requests))

----------------------------------------------------------------------------
(* The order of the two deletions.                                         *)

(* C17: once a DELETE of a deck has been issued, a DELETE has been issued  *)
(* for every card fetched from the destination, each before the first      *)
(* DELETE of a deck, and each has been answered with success, its card     *)
(* gone from the destination.                                              *)
C17_DecksAfterCards ==
    [](DeckDeletes # {} =>
           /\ Cardinality(CardDeletes) = Len(clearCards)
           /\ \A c \in CardDeletes :
                 /\ requests[c].status = "ok"
                 /\ \A d \in DeckDeletes : c < d
                 /\ ItemId(c, config.destinationCardsUrl)
                       \notin Ids(destination.cards))

C17_Witness ==
    /\ pc = "ClearDeleteDecks"
    /\ Cardinality(CardDeletes) >= 2
    /\ \E d \in DeckDeletes : requests[d].status = "inflight"

----------------------------------------------------------------------------
(* The tokens, the zone ids and the URLs of the configuration.             *)

Tokens == {"originalToken", "destinationToken"}

(* The token request to uaaUrl is fulfilled in this step.                  *)
Authenticates(uaaUrl) ==
    \E i \in TokenRequests :
        /\ requests[i].url[1] = uaaUrl
        /\ requests[i].status = "inflight"
        /\ requests'[i].status = "ok"

C18_Step ==
    /\ \A f \in DOMAIN config \ Tokens : config'[f] = config[f]
    /\ pc # "Start" =>
          /\ DOMAIN config' = DOMAIN config
          /\ config'.originalToken # config.originalToken =>
                /\ config.originalToken = ""
                /\ Authenticates(config.originalUaaUrl)
                /\ config'.originalToken = BearerOf(config.originalUaaUrl)
          /\ config'.destinationToken # config.destinationToken =>
                /\ config.destinationToken = ""
                /\ Authenticates(config.destinationUaaUrl)
                /\ config'.destinationToken = BearerOf(config.destinationUaaUrl)

TokenSetWhenAuthenticated(token, uaaUrl) ==
    token # "" <=> \E i \in TokenRequests : /\ requests[i].url[1] = uaaUrl
                                            /\ requests[i].status = "ok"

(* C18: a step changes a token only from the empty string to the bearer    *)
(* token of its zone and only when the token request of that zone is       *)
(* fulfilled in that step, so a token once set is never changed; no step   *)
(* changes any other field of the configuration; a token is set exactly    *)
(* when its zone's token request has been fulfilled; and no views request  *)
(* carries the empty token.                                                *)
C18_TokensSetOnce ==
    /\ [][C18_Step]_vars
    /\ [](pc # "Start" =>
            /\ TokenSetWhenAuthenticated(config.originalToken,
                                         config.originalUaaUrl)
            /\ TokenSetWhenAuthenticated(config.destinationToken,
                                         config.destinationUaaUrl)
            /\ \A i \in ViewsRequests : requests[i].authorization # "")

C18_Witness ==
    /\ pc = "Done"
    /\ config.originalToken = BearerOf(config.originalUaaUrl)
    /\ config.destinationToken = BearerOf(config.destinationUaaUrl)
    /\ config.originalToken # config.destinationToken
    /\ \E i, j \in ViewsRequests : InOrigin(i) /\ InDestination(j)

----------------------------------------------------------------------------
(* A run that does not clear the destination.                              *)

Deletes == {i \in Requests : requests[i].method = "DELETE"}

DestinationRequests ==
    {i \in ViewsRequests : requests[i].url[1] = config.destinationViewsUrl}

(* C19: when clearDestination is not set no DELETE is issued, the lists    *)
(* fetched for the deletions stay empty, the destination keeps what it     *)
(* held, and the first views request sent to the destination is the bulk   *)
(* POST of the cards.                                                      *)
C19_NoClearNoDelete ==
    [](pc # "Start" /\ ~config.clearDestination =>
           /\ Deletes = {}
           /\ clearCards = <<>> /\ clearDecks = <<>>
           /\ pc \notin {"ClearFetchCards", "ClearFetchDecks", "ClearDeleteCards",
                         "ClearDeleteDecks"}
           /\ \A i \in DestinationRequests :
                 (\A j \in DestinationRequests : i <= j)
                     => IsCreate(i, config.destinationCardsUrl))

C19_Witness ==
    /\ pc = "Done"
    /\ ~config.clearDestination
    /\ DestinationRequests # {}
    /\ \E n \in 1..Len(destination.cards) :
          destination.cards[n] = OldCard(1)

----------------------------------------------------------------------------
(* The requests sent to the origin.                                        *)

OriginRequests ==
    {i \in Requests : \/ requests[i].url[1] = config.originalViewsUrl
                      \/ requests[i].zoneId = config.originalViewsZoneId}

IsFetch(i, url) == requests[i].method = "GET" /\ requests[i].url = url

(* C20: at every state of a run, no DELETE has been sent to the origin:    *)
(* every request to the origin's views service or zone is the GET of its   *)
(* cards, the GET of its decks with their cards, or the POST of a deck's   *)
(* cards to cards/add, each GET sent at most once; and the token request   *)
(* to the origin's UAA instance is a POST.                                 *)
C20_OriginNeverDeleted ==
    [](/\ \A i \in OriginRequests :
             /\ requests[i].method # "DELETE"
             /\ \/ IsFetch(i, config.originalCardsUrl)
                \/ IsFetch(i, Append(config.originalDecksUrl,
                                     "?filter[include][cards]"))
                \/ IsAssociation(i, config.originalDecksUrl)
             /\ requests[i].method = "GET" =>
                   \A j \in OriginRequests : SameRequest(i, j) => i = j
       /\ \A i \in TokenRequests : requests[i].method = "POST")

C20_Witness ==
    /\ pc = "Done"
    /\ config.clearDestination
    /\ \E i \in CardDeletes : requests[i].status = "ok"
    /\ \E i \in OriginAssociations : requests[i].status = "ok"
    /\ \E i \in OriginRequests : IsFetch(i, config.originalCardsUrl)

====
